---------------------------- MODULE Spec2Model ----------------------------
(***************************************************************************)
(* A model of the PAF line parser (src/src/complete.rs), the record types  *)
(* and their text forms (src/src/paf.rs) and the error localizer           *)
(* (src/src/errors.rs).                                                    *)
(*                                                                         *)
(* Text is a sequence of characters; a character is a one-element token.   *)
(* A &str slice handed on by a parser is the remaining suffix of the       *)
(* input, exactly as nom hands it on.  Numbers are kept as their decimal   *)
(* digits, so that unsigned 64-bit values fit the model.                   *)
(***************************************************************************)
EXTENDS Integers, Sequences, FiniteSets, TLC

VARIABLES input, pc, out

vars == <<input, pc, out>>

---------------------------------------------------------------------------
(* Characters *)

Tab == "\t"
Newline == "\n"
CarriageReturn == "\r"
\* a character whose UTF-8 encoding is two bytes long
Wide == "U+00E9"

Digits == {"0", "1", "2", "3", "4", "5", "6", "7", "8", "9"}

DigitVal(c) ==
  CASE c = "0" -> 0 [] c = "1" -> 1 [] c = "2" -> 2 [] c = "3" -> 3
    [] c = "4" -> 4 [] c = "5" -> 5 [] c = "6" -> 6 [] c = "7" -> 7
    [] c = "8" -> 8 [] c = "9" -> 9

\* char::len_utf8
CharLen(c) == IF c = Wide THEN 2 ELSE 1

RECURSIVE StrLen(_)
\* str::len: the length in bytes
StrLen(s) == IF s = <<>> THEN 0 ELSE CharLen(Head(s)) + StrLen(Tail(s))

\* the first n characters of s, and s without them
Take(s, n) == SubSeq(s, 1, IF n < Len(s) THEN n ELSE Len(s))
Drop(s, n) == SubSeq(s, n + 1, Len(s))

\* nom::Offset for &str: the byte distance from the input to a suffix of it
Offset(whole, suffix) == StrLen(whole) - StrLen(suffix)

RECURSIVE Join(_, _)
\* [String]::join
Join(ss, sep) ==
  IF ss = <<>> THEN <<>>
  ELSE IF Len(ss) = 1 THEN ss[1]
  ELSE ss[1] \o sep \o Join(Tail(ss), sep)

---------------------------------------------------------------------------
(* Bytes.  A byte is written "0x" and two hexadecimal digits; a &[u8] is a *)
(* sequence of bytes, as a &str is a sequence of characters.               *)

\* the ASCII characters of the texts, each with its byte
AsciiTable ==
  {<<Tab, "0x09">>, <<Newline, "0x0A">>, <<CarriageReturn, "0x0D">>,
   <<" ", "0x20">>, <<"+", "0x2B">>, <<"-", "0x2D">>,
   <<"0", "0x30">>, <<"1", "0x31">>, <<"2", "0x32">>, <<"3", "0x33">>,
   <<"4", "0x34">>, <<"5", "0x35">>, <<"6", "0x36">>, <<"7", "0x37">>,
   <<"8", "0x38">>, <<"9", "0x39">>, <<"?", "0x3F">>,
   <<"a", "0x61">>, <<"b", "0x62">>, <<"q", "0x71">>, <<"t", "0x74">>,
   <<"x", "0x78">>, <<"y", "0x79">>, <<"z", "0x7A">>}

AsciiChars == {e[1] : e \in AsciiTable}
AsciiBytes == {e[2] : e \in AsciiTable}

\* the two bytes of Wide in UTF-8
WideBytes == <<"0xC3", "0xA9">>

\* char::encode_utf8
EncodeUtf8(c) ==
  IF c = Wide THEN WideBytes
  ELSE <<(CHOOSE e \in AsciiTable : e[1] = c)[2]>>

RECURSIVE as_bytes(_)
\* str::as_bytes
as_bytes(s) ==
  IF s = <<>> THEN <<>> ELSE EncodeUtf8(Head(s)) \o as_bytes(Tail(s))

RECURSIVE from_utf8(_)
\* std::str::from_utf8, followed by to_string: the text the bytes encode,
\* or an error when they are not UTF-8
from_utf8(bs) ==
  IF bs = <<>> THEN [ok |-> TRUE, val |-> <<>>]
  ELSE IF Head(bs) \in AsciiBytes
       THEN LET rest == from_utf8(Tail(bs))
                c == (CHOOSE e \in AsciiTable : e[2] = Head(bs))[1]
            IN  IF rest.ok THEN [ok |-> TRUE, val |-> <<c>> \o rest.val]
                ELSE rest
  ELSE IF Len(bs) >= 2 /\ SubSeq(bs, 1, 2) = WideBytes
       THEN LET rest == from_utf8(Drop(bs, 2))
            IN  IF rest.ok THEN [ok |-> TRUE, val |-> <<Wide>> \o rest.val]
                ELSE rest
  ELSE [ok |-> FALSE]

\* nom::AsChar::as_char: a character is itself, a byte is the character
\* with its code
AsChar(x) ==
  IF x \in AsciiBytes THEN (CHOOSE e \in AsciiTable : e[2] = x)[1]
  ELSE IF x = "0xC3" THEN "U+00C3"
  ELSE IF x = "0xA9" THEN "U+00A9"
  ELSE x

---------------------------------------------------------------------------
(* Parser results: IResult<&str, O, VerboseError<&str>> *)

Ok(rem, val) == [ok |-> TRUE, rem |-> rem, val |-> val]

\* one entry of VerboseError::errors
NomKind(i, k) == [at |-> i, tag |-> "Nom", arg |-> k]
CharKind(i, c) == [at |-> i, tag |-> "Char", arg |-> c]
ContextKind(i, s) == [at |-> i, tag |-> "Context", arg |-> s]

\* nom::Err::Error and nom::Err::Failure
Error(errors) == [ok |-> FALSE, hard |-> FALSE, errors |-> errors]
Failure(errors) == [ok |-> FALSE, hard |-> TRUE, errors |-> errors]

---------------------------------------------------------------------------
(* str::parse::<u8> and str::parse::<u64> on a run of digits.  The value   *)
(* is accumulated digit by digit with checked arithmetic; it is kept in    *)
(* decimal, without leading zeros.                                         *)

U8Max == <<"2", "5", "5">>
U64Max == <<"1", "8", "4", "4", "6", "7", "4", "4", "0", "7",
            "3", "7", "0", "9", "5", "5", "1", "6", "1", "5">>

RECURSIVE LexLeq(_, _)
LexLeq(a, b) ==
  IF a = <<>> THEN TRUE
  ELSE IF DigitVal(Head(a)) # DigitVal(Head(b))
       THEN DigitVal(Head(a)) < DigitVal(Head(b))
  ELSE LexLeq(Tail(a), Tail(b))

\* a <= b for two numbers written without leading zeros
NumLeq(a, b) == Len(a) < Len(b) \/ (Len(a) = Len(b) /\ LexLeq(a, b))

\* acc * 10 + d
MulAdd(acc, d) == IF acc = <<"0">> THEN <<d>> ELSE Append(acc, d)

RECURSIVE parse_checked(_, _, _)
\* checked_mul(10) and checked_add(digit), for each digit in turn
parse_checked(acc, s, max) ==
  IF s = <<>> THEN [ok |-> TRUE, val |-> acc]
  ELSE LET v == MulAdd(acc, Head(s))
       IN  IF NumLeq(v, max) THEN parse_checked(v, Tail(s), max)
           ELSE [ok |-> FALSE]

RECURSIVE WrapU8(_, _)
WrapU8(acc, s) ==
  IF s = <<>> THEN acc
  ELSE WrapU8((acc * 10 + DigitVal(Head(s))) % 256, Tail(s))

DigitOf(n) == CHOOSE c \in Digits : DigitVal(c) = n

RECURSIVE Decimal(_)
Decimal(n) ==
  IF n < 10 THEN <<DigitOf(n)>>
  ELSE Append(Decimal(n \div 10), DigitOf(n % 10))

\* parse_u8 as it would be with wrapping arithmetic in place of checked
parse_u8_wrapping(s) == [ok |-> TRUE, val |-> Decimal(WrapU8(0, s))]

parse_u8(s) == parse_checked(<<"0">>, s, U8Max)
parse_u64(s) == parse_checked(<<"0">>, s, U64Max)

---------------------------------------------------------------------------
(* The records of paf.rs *)

\* TryFrom<char> for Strand; one_of has let only '+' and '-' through
StrandFromChar(c) == IF c = "+" THEN "Plus" ELSE "Minus"

\* Locus::new
LocusNew(name, length, start, end) ==
  [name |-> name, length |-> length, start |-> start, end |-> end]

\* PAF::new
PAFNew(query, str, target, nmatch, alnlen, mq, fields) ==
  [query |-> query, strand |-> str, target |-> target, nmatch |-> nmatch,
   alnlen |-> alnlen, mq |-> mq, fields |-> fields]

---------------------------------------------------------------------------
(* The closures complete.rs hands to map and map_res *)

StringFrom(bs) == bs

LocusOfTuple(tup) == LocusNew(tup[1], tup[2], tup[3], tup[4])

\* PAFOfTuple with the columns number matches and alignment length swapped
PAFOfTupleSwapped(tup) ==
  LET query == LocusNew(tup[1], tup[2], tup[3], tup[4])
      target == LocusNew(tup[6], tup[7], tup[8], tup[9])
  IN  PAFNew(query, tup[5], target, tup[11], tup[10], tup[12], tup[13])

PAFOfTuple(tup) ==
  LET query == LocusNew(tup[1], tup[2], tup[3], tup[4])
      target == LocusNew(tup[6], tup[7], tup[8], tup[9])
  IN  PAFNew(query, tup[5], target, tup[10], tup[11], tup[12], tup[13])

\* the closure named f, applied to v
Apply(f, v) ==
  CASE f = "String::from" -> StringFrom(v)
    [] f = "try_into" -> StrandFromChar(v)
    [] f = "Locus::new" -> LocusOfTuple(v)
    [] f = "PAF::new" -> PAFOfTuple(v)
    [] f = "parse::<u8>" -> parse_u8(v)
    [] f = "parse::<u64>" -> parse_u64(v)
    [] f = "from_utf8" -> from_utf8(v)
    [] f = "from_utf8_unchecked.parse::<u8>" -> parse_u8(from_utf8(v).val)
    [] f = "from_utf8_unchecked.parse::<u64>" -> parse_u64(from_utf8(v).val)

---------------------------------------------------------------------------
(* The nom 5 parsers the grammar is built from, as complete.rs uses them   *)
(* with E = VerboseError<&str>.  A parser is a term; Run applies a term to *)
(* an input.                                                               *)

RECURSIVE RunLen(_, _)
\* the length of the longest prefix of s whose characters are all in set
RunLen(s, set) ==
  IF s = <<>> \/ Head(s) \notin set THEN 0 ELSE 1 + RunLen(Tail(s), set)

RECURSIVE RunLenNot(_, _)
RunLenNot(s, set) ==
  IF s = <<>> \/ Head(s) \in set THEN 0 ELSE 1 + RunLenNot(Tail(s), set)

\* is_not as it would be if an empty run were accepted
is_not_empty_ok(set, i) ==
  LET n == RunLenNot(i, set) IN Ok(Drop(i, n), Take(i, n))

\* is_not: the longest run of characters outside set; an empty run fails
is_not_complete(set, i) ==
  LET n == RunLenNot(i, set)
  IN  IF n = 0 THEN Error(<<NomKind(i, "IsNot")>>)
      ELSE Ok(Drop(i, n), Take(i, n))

\* digit1: the longest run of decimal digits; an empty run fails
digit1_complete(i) ==
  LET n == RunLen(i, {x \in {i[k] : k \in DOMAIN i} : AsChar(x) \in Digits})
  IN  IF n = 0 THEN Error(<<NomKind(i, "Digit")>>)
      ELSE Ok(Drop(i, n), Take(i, n))

\* char(c), of which tab and newline are instances
char_complete(c, i) ==
  IF i # <<>> /\ AsChar(Head(i)) = c THEN Ok(Tail(i), c)
  ELSE Error(<<CharKind(i, c)>>)

one_of_complete(set, i) ==
  IF i # <<>> /\ AsChar(Head(i)) \in set THEN Ok(Tail(i), AsChar(Head(i)))
  ELSE Error(<<NomKind(i, "OneOf")>>)

is_not(set) == [op |-> "is_not", set |-> set]
digit1 == [op |-> "digit1"]
tab == [op |-> "char", c |-> Tab]
newline == [op |-> "char", c |-> Newline]
one_of(set) == [op |-> "one_of", set |-> set]
context(label, p) == [op |-> "context", label |-> label, p |-> p]
terminated(p, q) == [op |-> "terminated", p |-> p, q |-> q]
preceded(p, q) == [op |-> "preceded", p |-> p, q |-> q]
opt(p) == [op |-> "opt", p |-> p]
cut(p) == [op |-> "cut", p |-> p]
all_consuming(p) == [op |-> "all_consuming", p |-> p]
separated_list(sep, p) == [op |-> "separated_list", sep |-> sep, p |-> p]
map(p, f) == [op |-> "map", p |-> p, f |-> f]
map_res(p, f) == [op |-> "map_res", p |-> p, f |-> f]
tuple(ps) == [op |-> "tuple", ps |-> ps]

RECURSIVE Run(_, _)
RECURSIVE RunTuple(_, _, _, _)
RECURSIVE RunSeparated(_, _, _, _)

RECURSIVE RunSeparatedEager(_, _, _, _)
\* RunSeparated as it would be if a separator stayed consumed when no
\* element follows it
RunSeparatedEager(sep, p, i, res) ==
  LET s == Run(sep, i)
  IN  IF ~s.ok THEN (IF s.hard THEN s ELSE Ok(i, res))
      ELSE LET r == Run(p, s.rem)
           IN  IF ~r.ok THEN (IF r.hard THEN r ELSE Ok(s.rem, res))
               ELSE RunSeparatedEager(sep, p, r.rem, Append(res, r.val))

\* tuple: the parsers ps[k], ps[k + 1], ... one after the other
RunTuple(ps, k, i, vals) ==
  IF k > Len(ps) THEN Ok(i, vals)
  ELSE LET r == Run(ps[k], i)
       IN  IF ~r.ok THEN r
           ELSE RunTuple(ps, k + 1, r.rem, Append(vals, r.val))

\* the loop of separated_list: i is the input after the last element
RunSeparated(sep, p, i, res) ==
  LET s == Run(sep, i)
  IN  IF ~s.ok THEN (IF s.hard THEN s ELSE Ok(i, res))
      ELSE IF s.rem = i THEN Error(<<NomKind(s.rem, "SeparatedList")>>)
      ELSE LET r == Run(p, s.rem)
           IN  IF ~r.ok THEN (IF r.hard THEN r ELSE Ok(i, res))
               ELSE IF r.rem = i
                    THEN Error(<<NomKind(r.rem, "SeparatedList")>>)
               ELSE RunSeparated(sep, p, r.rem, Append(res, r.val))

\* the parser p applied to the input i
Run(p, i) ==
  CASE p.op = "is_not" -> is_not_complete(p.set, i)
    [] p.op = "digit1" -> digit1_complete(i)
    [] p.op = "char" -> char_complete(p.c, i)
    [] p.op = "one_of" -> one_of_complete(p.set, i)
    [] p.op = "context" ->
         \* on failure the label is appended, with the parser's own input
         LET r == Run(p.p, i)
         IN  IF r.ok THEN r
             ELSE [r EXCEPT !.errors = Append(@, ContextKind(i, p.label))]
    [] p.op = "terminated" ->
         LET r == Run(p.p, i)
         IN  IF ~r.ok THEN r
             ELSE LET s == Run(p.q, r.rem)
                  IN  IF ~s.ok THEN s ELSE Ok(s.rem, r.val)
    [] p.op = "preceded" ->
         LET r == Run(p.p, i)
         IN  IF ~r.ok THEN r ELSE Run(p.q, r.rem)
    [] p.op = "opt" ->
         \* a recoverable error becomes "nothing, and nothing consumed"
         LET r == Run(p.p, i)
         IN  IF r.ok THEN Ok(r.rem, <<r.val>>)
             ELSE IF r.hard THEN r
             ELSE Ok(i, <<>>)
    [] p.op = "cut" ->
         LET r == Run(p.p, i)
         IN  IF r.ok THEN r ELSE Failure(r.errors)
    [] p.op = "all_consuming" ->
         LET r == Run(p.p, i)
         IN  IF ~r.ok THEN r
             ELSE IF r.rem = <<>> THEN r
             ELSE Error(<<NomKind(r.rem, "Eof")>>)
    [] p.op = "separated_list" ->
         LET r == Run(p.p, i)
         IN  IF ~r.ok THEN (IF r.hard THEN r ELSE Ok(i, <<>>))
             ELSE IF r.rem = i
                  THEN Error(<<NomKind(r.rem, "SeparatedList")>>)
             ELSE RunSeparated(p.sep, p.p, r.rem, <<r.val>>)
    [] p.op = "map" ->
         LET r == Run(p.p, i)
         IN  IF r.ok THEN Ok(r.rem, Apply(p.f, r.val)) ELSE r
    [] p.op = "map_res" ->
         \* when the closure fails the error is at the parser's own input
         LET r == Run(p.p, i)
         IN  IF ~r.ok THEN r
             ELSE LET v == Apply(p.f, r.val)
                  IN  IF v.ok THEN Ok(r.rem, v.val)
                      ELSE Error(<<NomKind(i, "MapRes")>>)
    [] p.op = "tuple" -> RunTuple(p.ps, 1, i, <<>>)

---------------------------------------------------------------------------
(* The grammar rules of complete.rs *)

Separators == {Tab, CarriageReturn, Newline}

strand ==
  map(context("expected either '+' or '-'", one_of({"+", "-"})), "try_into")

string_str ==
  context("expected an utf-8 string",
          map(is_not(Separators), "String::from"))

uint64_str ==
  context("expected an unsigned 64-bit integer",
          map_res(digit1, "parse::<u64>"))

uint8_str ==
  context("expected an unsigned 8-bit integer",
          map_res(digit1, "parse::<u8>"))

locus_str ==
  map(tuple(<<
        context("in column: seqid", terminated(string_str, tab)),
        context("in column: length", terminated(uint64_str, tab)),
        context("in column: start", terminated(uint64_str, tab)),
        context("in column: end", uint64_str)
      >>),
      "Locus::new")

sam_fields_str == separated_list(tab, string_str)

paf_str ==
  map(tuple(<<
        context("in column: query seqid", terminated(string_str, tab)),
        context("in column: query length", terminated(uint64_str, tab)),
        context("in column: query start", terminated(uint64_str, tab)),
        context("in column: query end", terminated(uint64_str, tab)),
        context("in column: strand", terminated(strand, tab)),
        context("in column: target seqid", terminated(string_str, tab)),
        context("in column: target length", terminated(uint64_str, tab)),
        context("in column: target start", terminated(uint64_str, tab)),
        context("in column: target end", terminated(uint64_str, tab)),
        context("in column: number matches", terminated(uint64_str, tab)),
        context("in column: alignment length", terminated(uint64_str, tab)),
        context("in column: mapping quality", uint8_str),
        context("in column: optional sam fields",
                preceded(opt(tab), sam_fields_str)),
        opt(newline)
      >>),
      "PAF::new")

---------------------------------------------------------------------------
(* The grammar rules of complete.rs on &[u8] *)

SeparatorBytes == {"0x09", "0x0D", "0x0A"}

string_u8 ==
  context("expected an utf-8 string",
          map_res(is_not(SeparatorBytes), "from_utf8"))

\* uint64_u8 as it would be if it parsed to the width of uint8_u8
uint64_u8_narrow ==
  context("expected an unsigned 64-bit integer",
          map_res(digit1, "from_utf8_unchecked.parse::<u8>"))

uint64_u8 ==
  context("expected an unsigned 64-bit integer",
          map_res(digit1, "from_utf8_unchecked.parse::<u64>"))

uint8_u8 ==
  context("expected an unsigned 8-bit integer",
          map_res(digit1, "from_utf8_unchecked.parse::<u8>"))

locus_u8 ==
  map(tuple(<<
        context("in column: seqid", terminated(string_u8, tab)),
        context("in column: length", terminated(uint64_u8, tab)),
        context("in column: start", terminated(uint64_u8, tab)),
        context("in column: end", uint64_u8)
      >>),
      "Locus::new")

sam_fields_u8 == separated_list(tab, string_u8)

paf_u8 ==
  map(tuple(<<
        context("in column: query seqid", terminated(string_u8, tab)),
        context("in column: query length", terminated(uint64_u8, tab)),
        context("in column: query start", terminated(uint64_u8, tab)),
        context("in column: query end", terminated(uint64_u8, tab)),
        context("in column: strand", terminated(strand, tab)),
        context("in column: target seqid", terminated(string_u8, tab)),
        context("in column: target length", terminated(uint64_u8, tab)),
        context("in column: target start", terminated(uint64_u8, tab)),
        context("in column: target end", terminated(uint64_u8, tab)),
        context("in column: number matches", terminated(uint64_u8, tab)),
        context("in column: alignment length", terminated(uint64_u8, tab)),
        context("in column: mapping quality", uint8_u8),
        context("in column: optional sam fields",
                preceded(opt(tab), sam_fields_u8)),
        opt(newline)
      >>),
      "PAF::new")

---------------------------------------------------------------------------
(* errors.rs: the error localizer *)

TabDisplayWidth == 4

None == <<>>
Some(x) == <<x>>

Empty == [kind |-> "Empty"]
EmptyLine(l) == [kind |-> "EmptyLine", line_num |-> l]
ParseLine(line, column, details) ==
  [kind |-> "ParseLine", line |-> line, column |-> column,
   details |-> details]
Parse(l, line, column, details) ==
  [kind |-> "Parse", line_num |-> l, line |-> line, column |-> column,
   details |-> details]
\* an index out of bounds, or a subtraction below zero on usize
Panic == [kind |-> "panic"]

StripCR(l) ==
  IF l # <<>> /\ l[Len(l)] = CarriageReturn THEN SubSeq(l, 1, Len(l) - 1)
  ELSE l

RECURSIVE Lines(_)
\* str::lines: split after each "\n"; the "\n", and a "\r" right before
\* it, are not part of the line; a last line without "\n" is kept as it is
Lines(s) ==
  IF s = <<>> THEN <<>>
  ELSE LET n == RunLenNot(s, {Newline})
       IN  IF n = Len(s) THEN <<s>>
           ELSE <<StripCR(Take(s, n))>> \o Lines(Drop(s, n + 1))

RECURSIVE Spaces(_)
Spaces(n) == IF n = 0 THEN <<>> ELSE <<" ">> \o Spaces(n - 1)

RECURSIVE Interleave(_, _)
Interleave(details, k) ==
  IF k > Len(details) THEN <<>>
  ELSE (IF k > 1 THEN <<" ">> ELSE <<>>) \o <<details[k]>>
       \o Interleave(details, k + 1)

\* the number of tabs among the first column characters of line
TabCount(line, column) ==
  Cardinality({k \in 1..Len(Take(line, column)) : line[k] = Tab})

\* the text is a sequence of pieces: one per space, the indicator "^ ",
\* then the details with a space between them
join_parse_details(line, column, details) ==
  LET count == TabCount(line, column)
      new_column == (column - count) + (count * TabDisplayWidth)
  IN  Spaces(new_column) \o <<"^ ">> \o Interleave(details, 1)

\* check_empty_input as it would be if blank lines counted as no input
check_empty_input_blank(line_num, lines) ==
  IF \A k \in 1..Len(lines) : lines[k] = <<>>
  THEN [ok |-> FALSE,
        err |-> IF line_num = None THEN Empty ELSE EmptyLine(line_num[1])]
  ELSE [ok |-> TRUE]

check_empty_input(line_num, lines) ==
  IF lines = <<>>
  THEN [ok |-> FALSE,
        err |-> IF line_num = None THEN Empty ELSE EmptyLine(line_num[1])]
  ELSE [ok |-> TRUE]

\* OnLine as it would be if an offset at the end of a line were not on it
OnLineStrict(offset, l) == offset < StrLen(l)

\* the test of the loop of find_offset: the offset falls on the line l
OnLine(offset, l) == offset <= StrLen(l)

RECURSIVE find_offset_loop(_, _, _)
find_offset_loop(offset, lines, j) ==
  IF j > Len(lines) THEN <<0, offset>>
  ELSE IF OnLine(offset, lines[j]) THEN <<j - 1, offset>>
  ELSE find_offset_loop(offset - StrLen(lines[j]) - 1, lines, j + 1)

RECURSIVE find_offset_underflow(_, _, _)
\* the loop of find_offset, from line j on, comes to subtract more from
\* the offset than the offset holds
find_offset_underflow(offset, lines, j) ==
  IF j > Len(lines) THEN FALSE
  ELSE IF OnLine(offset, lines[j]) THEN FALSE
  ELSE \/ offset - StrLen(lines[j]) - 1 < 0
       \/ find_offset_underflow(offset - StrLen(lines[j]) - 1, lines, j + 1)

\* the pair (line_no, offset); line_no counts from 0
find_offset(initial, lines) == find_offset_loop(initial, lines, 1)

FormatChar(c) ==
  IF c = Tab THEN "expected character '\t'"
  ELSE "expected character '\n'"

push_errorkind(details, e) ==
  CASE e.tag = "Char" -> Append(details, FormatChar(e.arg))
    [] e.tag = "Context" -> Append(details, e.arg)
    [] e.tag = "Nom" -> details

RECURSIVE push_all(_, _, _)
push_all(details, errors, k) ==
  IF k > Len(errors) THEN details
  ELSE push_all(push_errorkind(details, errors[k]), errors, k + 1)

\* convert_error_str as it would be if the position were taken from the
\* last, outermost entry of the failure
convert_error_str_outermost(text, errors, line_num_offset) ==
  LET lines == Lines(text)
      empty == check_empty_input(line_num_offset, lines)
      first == IF errors = <<>>
               THEN <<0, 0>>
               ELSE find_offset(Offset(text, errors[Len(errors)].at), lines)
      line_num == first[1]
      column == first[2]
      details == IF errors = <<>>
                 THEN <<"Somehow we didn't get an error.">>
                 ELSE push_all(<<>>, errors, 1)
  IN  IF ~empty.ok THEN empty.err
      ELSE IF errors # <<>>
              /\ find_offset_underflow(Offset(text, errors[1].at), lines, 1)
           THEN Panic
      ELSE IF line_num + 1 > Len(lines) THEN Panic
      ELSE IF line_num_offset = None
           THEN ParseLine(lines[line_num + 1], column, details)
      ELSE Parse(line_num + line_num_offset[1], lines[line_num + 1],
                 column, details)

convert_error_str(text, errors, line_num_offset) ==
  LET lines == Lines(text)
      empty == check_empty_input(line_num_offset, lines)
      first == IF errors = <<>>
               THEN <<0, 0>>
               ELSE find_offset(Offset(text, errors[1].at), lines)
      line_num == first[1]
      column == first[2]
      details == IF errors = <<>>
                 THEN <<"Somehow we didn't get an error.">>
                 ELSE push_all(<<>>, errors, 1)
  IN  IF ~empty.ok THEN empty.err
      ELSE IF errors # <<>>
              /\ find_offset_underflow(Offset(text, errors[1].at), lines, 1)
           THEN Panic
      ELSE IF line_num + 1 > Len(lines) THEN Panic
      ELSE IF line_num_offset = None
           THEN ParseLine(lines[line_num + 1], column, details)
      ELSE Parse(line_num + line_num_offset[1], lines[line_num + 1],
                 column, details)

RECURSIVE ReplaceTabs(_)
\* line.replace("\t", "    ")
ReplaceTabs(line) ==
  IF line = <<>> THEN <<>>
  ELSE (IF Head(line) = Tab THEN Spaces(TabDisplayWidth) ELSE <<Head(line)>>)
       \o ReplaceTabs(Tail(line))

\* Display for Error: the message, as its lines
ErrorFmt(e) ==
  CASE e.kind = "ParseLine" ->
         <<<<"Error while parsing line:">>, ReplaceTabs(e.line),
           join_parse_details(e.line, e.column, e.details)>>
    [] e.kind = "Parse" ->
         <<<<"Error while parsing line ", e.line_num, ":">>,
           ReplaceTabs(e.line),
           join_parse_details(e.line, e.column, e.details)>>
    [] e.kind = "EmptyLine" ->
         <<<<"Error while parsing line ", e.line_num,
             ": expected paf line but got empty input.">>>>
    [] e.kind = "Empty" ->
         <<<<"Error while parsing line: expected paf line but got empty input.">>>>

---------------------------------------------------------------------------
(* paf.rs: the text forms of the records, and the from-text entry points *)

StrandFmt(s) == IF s = "Plus" THEN <<"+">> ELSE <<"-">>

LocusFmt(l) ==
  l.name \o <<Tab>> \o l.length \o <<Tab>> \o l.start \o <<Tab>> \o l.end

\* PAFFmt with the threshold on the number of optional fields off by one
PAFFmtOffByOne(p) ==
  LET core == LocusFmt(p.query) \o <<Tab>> \o StrandFmt(p.strand) \o <<Tab>>
              \o LocusFmt(p.target) \o <<Tab>> \o p.nmatch \o <<Tab>>
              \o p.alnlen \o <<Tab>> \o p.mq
  IN  IF Len(p.fields) > 2 THEN core \o <<Tab>> \o Join(p.fields, <<Tab>>)
      ELSE core

\* PAFFmt as it would be if a single optional field were written too
PAFFmtAnyField(p) ==
  LET core == LocusFmt(p.query) \o <<Tab>> \o StrandFmt(p.strand) \o <<Tab>>
              \o LocusFmt(p.target) \o <<Tab>> \o p.nmatch \o <<Tab>>
              \o p.alnlen \o <<Tab>> \o p.mq
  IN  IF Len(p.fields) > 0 THEN core \o <<Tab>> \o Join(p.fields, <<Tab>>)
      ELSE core

PAFFmt(p) ==
  LET core == LocusFmt(p.query) \o <<Tab>> \o StrandFmt(p.strand) \o <<Tab>>
              \o LocusFmt(p.target) \o <<Tab>> \o p.nmatch \o <<Tab>>
              \o p.alnlen \o <<Tab>> \o p.mq
  IN  IF Len(p.fields) > 1 THEN core \o <<Tab>> \o Join(p.fields, <<Tab>>)
      ELSE core

\* the result of a from_str: Ok(value) or Err(diagnostic)
FromStrResult(r, s) ==
  IF r.ok THEN [ok |-> TRUE, val |-> r.val]
  ELSE [ok |-> FALSE, err |-> convert_error_str(s, r.errors, None)]

LocusParse(s) == Run(all_consuming(cut(locus_str)), s)
PAFParse(s) == Run(all_consuming(cut(paf_str)), s)

LocusFromStr(s) == FromStrResult(LocusParse(s), s)
PAFFromStr(s) == FromStrResult(PAFParse(s), s)

---------------------------------------------------------------------------
(* The texts the operations are applied to *)

\* the longest free text, in characters
MaxTextLen == 4
\* the largest number of optional fields written after mapping quality
MaxOpt == 2
\* the largest line number a caller passes to convert_error_str
MaxLineNum == 2
\* the longest run of digits drawn around the 8-bit limit
MaxDigits == 3

RECURSIVE SeqsUpTo(_, _)
\* the sequences over set of length 0..n
SeqsUpTo(set, n) ==
  IF n = 0 THEN {<<>>}
  ELSE LET shorter == SeqsUpTo(set, n - 1)
       IN  shorter \cup {Append(s, c) : s \in shorter, c \in set}

TextAlphabet == {"a", Tab, Newline, CarriageReturn, Wide}

Texts == SeqsUpTo(TextAlphabet, MaxTextLen)

\* a PAF line as in the tests of complete.rs, every column different
DefaultColumns ==
  <<<<"q">>, <<"1", "0">>, <<"2">>, <<"9">>, <<"+">>,
    <<"t">>, <<"2", "0">>, <<"3">>, <<"8">>, <<"5">>, <<"6">>, <<"1">>>>

NameColumns == {1, 6}
StrandColumn == 5
QualityColumn == 12

U64MaxPlusOne == SubSeq(U64Max, 1, 19) \o <<"6">>

NameVariants == {<<>>, <<"a", "b">>, <<Wide, Wide>>, <<"7">>}
NumberVariants ==
  {<<>>, <<"0">>, <<"0", "7">>, <<"x">>, <<"4", "x">>, U64Max, U64MaxPlusOne}
StrandVariants == {<<>>, <<"-">>, <<"?">>, <<"+", "-">>}
QualityVariants ==
  {<<>>, <<"0">>, <<"0", "0", "7">>, <<"2", "5", "5">>, <<"2", "5", "6">>,
   <<"x">>}

Variants(k) ==
  IF k \in NameColumns THEN NameVariants
  ELSE IF k = StrandColumn THEN StrandVariants
  ELSE IF k = QualityColumn THEN QualityVariants
  ELSE NumberVariants

OptAlphabet == {<<"x">>, <<"y", "z">>}

\* what follows mapping quality: an optional tab, up to MaxOpt fields
\* joined by tabs, and an ending
Endings ==
  {<<>>, <<Newline>>, <<Tab>>, <<Newline, Newline>>,
   <<CarriageReturn, Newline>>, <<Tab, Newline>>}

Tails ==
  {lead \o Join(fs, <<Tab>>) \o e :
     lead \in {<<>>, <<Tab>>}, fs \in SeqsUpTo(OptAlphabet, MaxOpt),
     e \in Endings}

FewTails == {<<>>, <<Newline>>, <<Tab, "x", Tab, "y", "z">>}

\* the default line with its first n columns only
Truncated(columns, n, e) == Join(SubSeq(columns, 1, n), <<Tab>>) \o e

PafLines ==
  {Join(DefaultColumns, <<Tab>>) \o t : t \in Tails}
  \cup UNION {{Join([DefaultColumns EXCEPT ![k] = v], <<Tab>>) \o t :
                 v \in Variants(k), t \in FewTails} : k \in 1..12}
  \cup {Truncated(DefaultColumns, n, e) :
          n \in 1..11, e \in {<<>>, <<Tab>>, <<Newline>>}}

DefaultLocus == SubSeq(DefaultColumns, 1, 4)

LocusTails ==
  {<<>>, <<Newline>>, <<Tab>>, <<Tab, "x">>, <<"x">>, <<Newline, Newline>>,
   <<CarriageReturn, Newline>>}

LocusLines ==
  {Join(DefaultLocus, <<Tab>>) \o t : t \in LocusTails}
  \cup UNION {{Join([DefaultLocus EXCEPT ![k] = v], <<Tab>>) \o t :
                 v \in Variants(k), t \in {<<>>, <<Newline>>}} : k \in 1..4}
  \cup {Truncated(DefaultLocus, n, e) :
          n \in 1..3, e \in {<<>>, <<Tab>>, <<Newline>>}}

\* runs of digits around the limits of u8 and u64, and what follows them
DigitRuns ==
  SeqsUpTo({"0", "2", "5", "6"}, MaxDigits)
  \cup {U64Max, U64MaxPlusOne, <<"0">> \o U64Max, <<"0">> \o U64MaxPlusOne,
        U64Max \o <<"0">>, SubSeq(U64Max, 1, 19),
        [k \in 1..20 |-> "9"], <<"1", "2", "3", "4", "5", "6">>}

UintInputs ==
  {r \o t : r \in DigitRuns, t \in {<<>>, <<Tab, "a">>, <<"a">>}}

Inputs == Texts \cup PafLines \cup LocusLines \cup UintInputs

LineNumOffsets == {None} \cup {Some(l) : l \in 1..MaxLineNum}

---------------------------------------------------------------------------
(* The operations.  A text is given; one of the public entry points, one   *)
(* of the grammar rules or one of the localizer's functions is applied to  *)
(* it, and a decoded record or a diagnostic may then be rendered.          *)

RuleNames ==
  {"paf_str", "locus_str", "sam_fields_str", "string_str", "uint64_str",
   "uint8_str", "strand"}

Rule(name) ==
  CASE name = "paf_str" -> paf_str
    [] name = "locus_str" -> locus_str
    [] name = "sam_fields_str" -> sam_fields_str
    [] name = "string_str" -> string_str
    [] name = "uint64_str" -> uint64_str
    [] name = "uint8_str" -> uint8_str
    [] name = "strand" -> strand

RuleNamesU8 ==
  {"paf_u8", "locus_u8", "sam_fields_u8", "string_u8", "uint64_u8",
   "uint8_u8"}

RuleU8(name) ==
  CASE name = "paf_u8" -> paf_u8
    [] name = "locus_u8" -> locus_u8
    [] name = "sam_fields_u8" -> sam_fields_u8
    [] name = "string_u8" -> string_u8
    [] name = "uint64_u8" -> uint64_u8
    [] name = "uint8_u8" -> uint8_u8

Init ==
  /\ input \in Inputs
  /\ pc = "start"
  /\ out = <<>>

CallRule ==
  /\ pc = "start"
  /\ \E name \in RuleNames :
       /\ pc' = name
       /\ out' = Run(Rule(name), input)
  /\ UNCHANGED input

\* a rule on &[u8], applied to the bytes of the text from its first or
\* from its second byte on
CallRuleU8 ==
  /\ pc = "start"
  /\ \E name \in RuleNamesU8, from \in 0..1 :
       LET bytes == Drop(as_bytes(input), from)
       IN  /\ pc' = name
           /\ out' = [from |-> from, bytes |-> bytes,
                      result |-> Run(RuleU8(name), bytes)]
  /\ UNCHANGED input

CallPAFFromStr ==
  /\ pc = "start"
  /\ pc' = "PAF::from_str"
  /\ out' = PAFFromStr(input)
  /\ UNCHANGED input

CallLocusFromStr ==
  /\ pc = "start"
  /\ pc' = "Locus::from_str"
  /\ out' = LocusFromStr(input)
  /\ UNCHANGED input

\* convert_error_str on the failure of either record rule, with or
\* without a line number
CallConvertErrorStr ==
  /\ pc = "start"
  /\ \E l \in LineNumOffsets, r \in {PAFParse(input), LocusParse(input)} :
       /\ ~r.ok
       /\ pc' = "convert_error_str"
       /\ out' = [ok |-> FALSE, line_num_offset |-> l, errors |-> r.errors,
                  err |-> convert_error_str(input, r.errors, l)]
  /\ UNCHANGED input

CallPAFFmt ==
  /\ pc = "PAF::from_str"
  /\ out.ok
  /\ pc' = "PAF::fmt"
  /\ out' = [val |-> out.val, text |-> PAFFmt(out.val)]
  /\ UNCHANGED input

CallLocusFmt ==
  /\ pc = "Locus::from_str"
  /\ out.ok
  /\ pc' = "Locus::fmt"
  /\ out' = [val |-> out.val, text |-> LocusFmt(out.val)]
  /\ UNCHANGED input

CallErrorFmt ==
  /\ pc \in {"PAF::from_str", "Locus::from_str", "convert_error_str"}
  /\ ~out.ok
  /\ out.err # Panic
  /\ pc' = "Error::fmt"
  /\ out' = [err |-> out.err, text |-> ErrorFmt(out.err)]
  /\ UNCHANGED input

CallFindOffset ==
  /\ pc = "start"
  /\ \E o \in 0..StrLen(input) :
       /\ pc' = "find_offset"
       /\ out' = [initial |-> o, lines |-> Lines(input),
                  result |-> find_offset(o, Lines(input))]
  /\ UNCHANGED input

\* join_parse_details on a line of the text and an offset within it
CallJoinParseDetails ==
  /\ pc = "start"
  /\ \E k \in 1..Len(Lines(input)) :
       \E column \in 0..StrLen(Lines(input)[k]) :
         /\ pc' = "join_parse_details"
         /\ out' = [line |-> Lines(input)[k], column |-> column,
                    text |-> join_parse_details(Lines(input)[k], column,
                                                <<"in column: seqid">>)]
  /\ UNCHANGED input

Next ==
  \/ CallRule
  \/ CallRuleU8
  \/ CallPAFFromStr
  \/ CallLocusFromStr
  \/ CallConvertErrorStr
  \/ CallPAFFmt
  \/ CallLocusFmt
  \/ CallErrorFmt
  \/ CallFindOffset
  \/ CallJoinParseDetails

Spec == Init /\ [][Next]_vars

---------------------------------------------------------------------------
(* What the claims are stated with: the columns of a line and the value    *)
(* of a run of digits, both read off the text without the parser.          *)

RECURSIVE SplitOn(_, _)
\* the pieces of s between the occurrences of sep
SplitOn(s, sep) ==
  LET n == RunLenNot(s, {sep})
  IN  IF n = Len(s) THEN <<s>>
      ELSE <<Take(s, n)>> \o SplitOn(Drop(s, n + 1), sep)

IsDigitRun(s) == s # <<>> /\ \A k \in 1..Len(s) : s[k] \in Digits

RECURSIVE StripZeros(_)
\* the decimal numeral of the run's value
StripZeros(s) ==
  IF Len(s) > 1 /\ Head(s) = "0" THEN StripZeros(Tail(s)) ELSE s

RECURSIVE Horner(_, _)
\* the value of at most nine digits
Horner(acc, s) ==
  IF s = <<>> THEN acc ELSE Horner(acc * 10 + DigitVal(Head(s)), Tail(s))

FitsU8(run) ==
  LET s == StripZeros(run) IN Len(s) <= 3 /\ Horner(0, s) <= 255

\* value <= 18 446744073 709551615, compared in groups of nine digits
FitsU64(run) ==
  LET s == StripZeros(run)
      hi == Horner(0, SubSeq(s, 1, 2))
      mid == Horner(0, SubSeq(s, 3, 11))
      lo == Horner(0, SubSeq(s, 12, 20))
  IN  \/ Len(s) < 20
      \/ /\ Len(s) = 20
         /\ \/ hi < 18
            \/ hi = 18 /\ mid < 446744073
            \/ hi = 18 /\ mid = 446744073 /\ lo <= 709551615

IsName(s) ==
  s # <<>> /\ \A k \in 1..Len(s) : s[k] \notin Separators

U64Columns == {2, 3, 4, 7, 8, 9, 10, 11}

\* twelve well-formed core fields
CoreWellFormed(cols) ==
  /\ Len(cols) >= 12
  /\ \A k \in NameColumns : IsName(cols[k])
  /\ \A k \in U64Columns : IsDigitRun(cols[k]) /\ FitsU64(cols[k])
  /\ cols[StrandColumn] \in {<<"+">>, <<"-">>}
  /\ IsDigitRun(cols[QualityColumn]) /\ FitsU8(cols[QualityColumn])

\* the optional fields written on a well-formed line: none (with or
\* without a tab after mapping quality), or k >= 1 non-empty ones
OptionalOf(cols) ==
  IF Len(cols) = 13 /\ cols[13] = <<>> THEN <<>>
  ELSE SubSeq(cols, 13, Len(cols))

WellFormedLine(line) ==
  LET cols == SplitOn(line, Tab)
  IN  /\ CoreWellFormed(cols)
      /\ \A k \in 1..Len(OptionalOf(cols)) : IsName(OptionalOf(cols)[k])

\* the record a well-formed line stands for
RecordOf(line) ==
  LET cols == SplitOn(line, Tab)
      num(k) == StripZeros(cols[k])
  IN  [query |-> [name |-> cols[1], length |-> num(2), start |-> num(3),
                  end |-> num(4)],
       strand |-> IF cols[5] = <<"+">> THEN "Plus" ELSE "Minus",
       target |-> [name |-> cols[6], length |-> num(7), start |-> num(8),
                   end |-> num(9)],
       nmatch |-> num(10), alnlen |-> num(11), mq |-> num(12),
       fields |-> OptionalOf(cols)]

---------------------------------------------------------------------------
(* The claims *)

\* C1: paf_str on a line of twelve well-formed core fields separated by
\* single tabs (a name being a non-empty run without tab, carriage return
\* or newline), optionally followed by a tab and k >= 0 non-empty optional
\* fields, succeeds with nothing left and returns the record whose query is
\* fields 1-4, strand field 5, target fields 6-9, number of matches,
\* alignment length and mapping quality fields 10-12, and whose optional
\* fields are the k trailing fields in their order.
C1_FieldOrder ==
  (pc = "paf_str" /\ WellFormedLine(input))
    => (out.ok /\ out.rem = <<>> /\ out.val = RecordOf(input))

\* a well-formed line with two optional fields has been decoded
C1_Witness ==
  /\ pc = "paf_str"
  /\ WellFormedLine(input)
  /\ out.ok
  /\ Len(out.val.fields) = 2
  /\ out.val.nmatch # out.val.alnlen

NoTabAfterQuality(line) ==
  LET cols == SplitOn(line, Tab)
  IN  /\ Len(cols) >= 12
      /\ \/ Len(cols) = 12
         \/ RunLen(cols[QualityColumn], Digits) < Len(cols[QualityColumn])

\* C2: in the full-record rule, whenever the digits of mapping quality are
\* not immediately followed by a tab, the decoded record has no optional
\* fields.
C2_NoTabNoFields ==
  (pc = "paf_str" /\ out.ok /\ NoTabAfterQuality(input))
    => out.val.fields = <<>>

\* a locus line that is well formed but for its name, which is empty
EmptyNameLocus(line) ==
  LET cols == SplitOn(line, Tab)
  IN  /\ Len(cols) = 4
      /\ cols[1] = <<>>
      /\ \A k \in 2..4 : IsDigitRun(cols[k]) /\ FitsU64(cols[k])

StartsWithSeparator(i) == i = <<>> \/ Head(i) \in Separators

UintRun == Take(input, RunLen(input, Digits))

\* C4: uint8_str and uint64_str, on input that starts with a run of digits:
\* when the run's value exceeds the width's maximum the rule fails, every
\* entry of the failure is positioned at the first digit, and no value is
\* returned (so none equal to the run modulo 2^width); when the value is in
\* range the rule returns exactly that value and the input right after the
\* run.
C4_UintRange ==
  (pc \in {"uint8_str", "uint64_str"} /\ UintRun # <<>>)
    => IF (IF pc = "uint8_str" THEN FitsU8(UintRun) ELSE FitsU64(UintRun))
       THEN /\ out.ok
            /\ out.val = StripZeros(UintRun)
            /\ out.rem = Drop(input, Len(UintRun))
       ELSE /\ ~out.ok
            /\ \A k \in 1..Len(out.errors) :
                 Offset(input, out.errors[k].at) = 0
            /\ out.errors[1] = NomKind(input, "MapRes")

\* uint8_str has been applied to 256 followed by more text
C4_Witness ==
  /\ pc = "uint8_str"
  /\ UintRun = <<"2", "5", "6">>
  /\ Len(input) > 3
  /\ ~out.ok

WellFormedLocus(line) ==
  LET cols == SplitOn(line, Tab)
  IN  /\ Len(cols) = 4
      /\ IsName(cols[1])
      /\ \A k \in 2..4 : IsDigitRun(cols[k]) /\ FitsU64(cols[k])

WellFormedFor(entry, line) ==
  IF entry = "PAF::from_str" THEN WellFormedLine(line)
  ELSE WellFormedLocus(line)

\* the lengths of the prefixes of line that are well-formed
WellFormedPrefixes(entry, line) ==
  {n \in 0..Len(line) : WellFormedFor(entry, Take(line, n))}

Max(set) == CHOOSE n \in set : \A m \in set : m <= n

\* what follows the longest well-formed prefix of line
AfterWellFormed(entry, line) ==
  Drop(line, Max(WellFormedPrefixes(entry, line)))

\* C5: PAF::from_str and Locus::from_str succeed only when the rule
\* consumes the whole input; a well-formed record or locus followed by
\* exactly one newline is accepted; a well-formed record or locus followed
\* by anything else (a second newline, a dangling tab, extra text) is
\* rejected.
C5_AllConsuming ==
  (pc \in {"PAF::from_str", "Locus::from_str"}
     /\ WellFormedPrefixes(pc, input) # {})
    => /\ AfterWellFormed(pc, input) \in {<<>>, <<Newline>>} => out.ok
       /\ AfterWellFormed(pc, input) \notin {<<>>, <<Newline>>} => ~out.ok

SpacesBeforeCaret(text) ==
  (CHOOSE k \in 1..Len(text) : text[k] = "^ ") - 1

\* the number of tabs of line that lie before the byte offset
TabsBeforeByte(line, offset) ==
  Cardinality({k \in 1..Len(line) :
                 line[k] = Tab /\ StrLen(Take(line, k - 1)) < offset})

CaretColumn(line, offset) ==
  offset - TabsBeforeByte(line, offset)
  + TabDisplayWidth * TabsBeforeByte(line, offset)

\* C6: the number of spaces join_parse_details renders before the caret is
\* offset - N + 4 * N, N being the number of tabs of the line strictly
\* before the byte offset of the error; also in lines with N = 0 and in
\* lines with characters wider than one byte.
C6_CaretColumn ==
  /\ pc = "join_parse_details"
       => SpacesBeforeCaret(out.text) = CaretColumn(out.line, out.column)
  /\ (pc = "Error::fmt" /\ out.err.kind \in {"ParseLine", "Parse"})
       => SpacesBeforeCaret(out.text[3])
            = CaretColumn(out.err.line, out.err.column)

\* the byte position of the k-th character of text
BytePos(text, k) == StrLen(Take(text, k - 1))

NewlinesBefore(text, o) ==
  {k \in 1..Len(text) : text[k] = Newline /\ BytePos(text, k) < o}

\* the index of the line that holds byte o, and where that line starts
LineOf(text, o) == Cardinality(NewlinesBefore(text, o))
LineStart(text, o) ==
  IF NewlinesBefore(text, o) = {} THEN 0
  ELSE BytePos(text, Max(NewlinesBefore(text, o))) + 1

\* C7: for every offset o from 0 to the length of the input, find_offset
\* returns the index of the line that contains position o and o minus the
\* start of that line; an offset right after a line terminator is column 0
\* of the following line.
C7_OffsetLocalization ==
  pc = "find_offset"
    => out.result = <<LineOf(input, out.initial),
                      out.initial - LineStart(input, out.initial)>>

LabelOf(e) ==
  IF e.tag = "Context" THEN e.arg
  ELSE IF e.arg = Tab THEN "expected character '\t'"
  ELSE "expected character '\n'"

Interpreted(e) == e.tag # "Nom"

\* the labels of a failure: its entries but the Nom ones, in their order
LabelsOf(errors) ==
  LET kept == SelectSeq(errors, Interpreted)
  IN  [k \in 1..Len(kept) |-> LabelOf(kept[k])]

FailureOf(entry, text) ==
  IF entry = "PAF::from_str" THEN PAFParse(text) ELSE LocusParse(text)

\* C8: when PAF::from_str or Locus::from_str fails on a non-empty input the
\* diagnostic carries at least one detail label, and the labels are the
\* entries of the failure without the Nom ones, in the same order.
C8_Labels ==
  (pc \in {"PAF::from_str", "Locus::from_str"} /\ ~out.ok /\ input # <<>>)
    => /\ Len(out.err.details) >= 1
       /\ out.err.details = LabelsOf(FailureOf(pc, input).errors)

\* C9: convert_error_str returns the empty-input diagnostic (Empty without
\* a line number, EmptyLine with the given number) if and only if the
\* input is empty; a failure on a non-empty input yields ParseLine (no
\* line number) or Parse (with one); PAF::from_str("") yields Empty.
C9_EmptyInput ==
  /\ pc = "convert_error_str"
       => IF input = <<>>
          THEN out.err = (IF out.line_num_offset = None THEN Empty
                          ELSE EmptyLine(out.line_num_offset[1]))
          ELSE out.err.kind = (IF out.line_num_offset = None
                               THEN "ParseLine" ELSE "Parse")
  /\ (pc \in {"PAF::from_str", "Locus::from_str"} /\ ~out.ok)
       => IF input = <<>> THEN out.err = Empty
          ELSE out.err.kind = "ParseLine"
  /\ (pc = "PAF::from_str" /\ input = <<>>) => ~out.ok

\* convert_error_str has been given a blank but non-empty input
C9_Witness ==
  /\ pc = "convert_error_str"
  /\ input = <<Newline>>
  /\ out.line_num_offset # None
  /\ out.err.kind = "Parse"

\* C10, as claimed: when PAF::from_str accepts a line and the record has 0
\* or at least 2 optional fields, rendering the record reproduces the line
\* character for character.
C10_RoundTrip ==
  (pc = "PAF::fmt" /\ Len(out.val.fields) # 1) => out.text = input

\* a line as PAFFmt writes one: well-formed, numbers without leading
\* zeros, nothing after the last field
RenderedForm(line) ==
  LET cols == SplitOn(line, Tab)
  IN  /\ WellFormedLine(line)
      /\ \A k \in U64Columns \cup {QualityColumn} :
           cols[k] = StripZeros(cols[k])
      /\ cols[Len(cols)] # <<>>

\* C10, amended: when PAF::from_str accepts a line and the record has 0 or
\* at least 2 optional fields, the rendering of the record decodes to the
\* same record again; it reproduces the line character for character when
\* the line has no trailing newline, no tab after its last field, no
\* leading zeros in its numbers and a tab before each optional field.
C10_RoundTripRendered ==
  (pc = "PAF::fmt" /\ Len(out.val.fields) # 1)
    => /\ PAFFromStr(out.text) = [ok |-> TRUE, val |-> out.val]
       /\ RenderedForm(input) => out.text = input
       /\ out.text = input => RenderedForm(input)

\* a line with two optional fields has been decoded and rendered
C10_Witness ==
  /\ pc = "PAF::fmt"
  /\ Len(out.val.fields) = 2
  /\ RenderedForm(input)
  /\ out.text = input

---------------------------------------------------------------------------
(* C11: the optional fields in the rendering of a record *)

\* the record p without its optional fields
WithoutFields(p) == [p EXCEPT !.fields = <<>>]

\* the twelve core columns of the record p, as written
CoreColumns(p) ==
  <<p.query.name, p.query.length, p.query.start, p.query.end,
    StrandFmt(p.strand),
    p.target.name, p.target.length, p.target.start, p.target.end,
    p.nmatch, p.alnlen, p.mq>>

\* C11: the rendering of a decoded record is its twelve core columns,
\* followed by the optional fields (tab-joined, in stored order) only when
\* there are more than one; a record with exactly one optional field is
\* rendered as the same record without optional fields, and decoding that
\* rendering gives the record without the field.
C11_FieldsAppended ==
  pc = "PAF::fmt"
    => LET fields == out.val.fields
           core == Join(CoreColumns(out.val), <<Tab>>)
       IN  /\ Len(fields) > 1
                => out.text = core \o <<Tab>> \o Join(fields, <<Tab>>)
           /\ Len(fields) <= 1
                => /\ out.text = core
                   /\ out.text = PAFFmt(WithoutFields(out.val))
           /\ Len(fields) = 1
                => /\ PAFFromStr(out.text)
                        = [ok |-> TRUE, val |-> WithoutFields(out.val)]
                   /\ PAFFromStr(out.text).val # out.val

\* a line with exactly one optional field has been decoded and rendered
C11_Witness ==
  /\ pc = "PAF::fmt"
  /\ out.val.fields = <<<<"y", "z">>>>
  /\ Len(SplitOn(out.text, Tab)) = 12

---------------------------------------------------------------------------
(* C12: the rules on &str and the rules on &[u8] *)

IsAscii(text) == \A k \in 1..Len(text) : text[k] \in AsciiChars

\* the rule on &str that the rule on &[u8] named name goes with
StrRuleOf(name) == IF name = "paf_u8" THEN paf_str ELSE locus_str

\* a well-formed record line (for paf_u8) or locus (for locus_u8), alone
\* or followed by one newline
LegalInput(name, text) ==
  \E line \in {text, Take(text, Len(text) - 1)} :
    /\ text \in {line, line \o <<Newline>>}
    /\ IF name = "paf_u8" THEN WellFormedLine(line)
       ELSE WellFormedLocus(line)

\* C12: on the bytes of an ASCII text, paf_u8 (locus_u8) succeeds exactly
\* when paf_str (locus_str) succeeds on the text, and both do on a legal
\* record (locus); the two decoded values are equal, and the remainders
\* have the same length and the same content, the one as bytes and the
\* other as text.
C12_TextByteEquivalence ==
  (pc \in {"paf_u8", "locus_u8"} /\ out.from = 0 /\ IsAscii(input))
    => LET s == Run(StrRuleOf(pc), input)
           b == out.result
       IN  /\ LegalInput(pc, input) => (s.ok /\ b.ok)
           /\ s.ok <=> b.ok
           /\ s.ok => /\ b.val = s.val
                      /\ Len(b.rem) = StrLen(s.rem)
                      /\ b.rem = as_bytes(s.rem)
                      /\ from_utf8(b.rem) = [ok |-> TRUE, val |-> s.rem]

\* paf_u8 has decoded the bytes of a legal ASCII line one of whose
\* lengths needs all 64 bits
C12_Witness ==
  /\ pc = "paf_u8"
  /\ out.from = 0
  /\ IsAscii(input)
  /\ LegalInput(pc, input)
  /\ out.result.ok
  /\ out.result.val.query.length = U64Max

---------------------------------------------------------------------------
(* C13: the optional-fields rule *)

\* what may follow the fields that the rule returns: nothing, a carriage
\* return or newline, or a tab that no non-empty field follows
NoFieldAt(rest) ==
  \/ rest = <<>>
  \/ rest[1] \in {CarriageReturn, Newline}
  \/ rest[1] = Tab /\ (Len(rest) = 1 \/ rest[2] \in Separators)

\* the result r of the rule on text is the longest sequence of non-empty
\* fields separated by single tabs that text starts with
MaximalFields(text, r) ==
  /\ r.ok
  /\ \A k \in 1..Len(r.val) : IsName(r.val[k])
  /\ text = Join(r.val, <<Tab>>) \o r.rem
  /\ IF r.val = <<>>
     THEN r.rem = text /\ (text = <<>> \/ text[1] \in Separators)
     ELSE NoFieldAt(r.rem)

\* C13: sam_fields_str never fails; on empty input it returns no field and
\* consumes nothing; otherwise it returns the longest sequence of non-empty
\* fields separated by single tabs, in input order, and leaves a tab that
\* no non-empty field follows.  sam_fields_u8 never fails either, and on
\* the bytes of a text gives the same fields and the bytes of the same
\* remainder.
C13_SamFields ==
  /\ pc = "sam_fields_str"
       => /\ MaximalFields(input, out)
          /\ input = <<>> => (out.val = <<>> /\ out.rem = <<>>)
  /\ pc = "sam_fields_u8"
       => /\ out.result.ok
          /\ out.from = 0
               => /\ out.result.val = Run(sam_fields_str, input).val
                  /\ out.result.rem
                       = as_bytes(Run(sam_fields_str, input).rem)

\* sam_fields_str has returned two fields and left a tab
C13_Witness ==
  /\ pc = "sam_fields_str"
  /\ input = <<"a", Tab, "a", Tab>>
  /\ out.val = <<<<"a">>, <<"a">>>>
  /\ out.rem = <<Tab>>

---------------------------------------------------------------------------
(* C14: the diagnostic of a failure in a core column *)

ColumnLabels ==
  <<"in column: query seqid", "in column: query length",
    "in column: query start", "in column: query end", "in column: strand",
    "in column: target seqid", "in column: target length",
    "in column: target start", "in column: target end",
    "in column: number matches", "in column: alignment length",
    "in column: mapping quality">>

TokenLabel(k) ==
  IF k \in NameColumns THEN "expected an utf-8 string"
  ELSE IF k = StrandColumn THEN "expected either '+' or '-'"
  ELSE IF k = QualityColumn THEN "expected an unsigned 8-bit integer"
  ELSE "expected an unsigned 64-bit integer"

\* the length of the token of column k that rest starts with
TokenLen(k, rest) ==
  IF k \in NameColumns THEN RunLenNot(rest, Separators)
  ELSE IF k = StrandColumn
       THEN (IF rest # <<>> /\ rest[1] \in {"+", "-"} THEN 1 ELSE 0)
  ELSE RunLen(rest, Digits)

\* rest starts with a token that column k accepts
TokenOk(k, rest) ==
  LET token == Take(rest, TokenLen(k, rest))
  IN  /\ token # <<>>
      /\ k \in U64Columns => FitsU64(token)
      /\ k = QualityColumn => FitsU8(token)

RECURSIVE CoreFailure(_, _)
\* the first failure in the core columns k..12 of rest: where the token
\* that could not be matched starts, and the two labels; None if there is
\* no such failure
CoreFailure(k, rest) ==
  IF k > Len(ColumnLabels) THEN None
  ELSE IF ~TokenOk(k, rest)
       THEN Some([at |-> rest, details |-> <<TokenLabel(k), ColumnLabels[k]>>])
  ELSE LET after == Drop(rest, TokenLen(k, rest))
       IN  IF k = Len(ColumnLabels) THEN None
           ELSE IF after = <<>> \/ after[1] # Tab
                THEN Some([at |-> after,
                           details |-> <<"expected character '\t'",
                                         ColumnLabels[k]>>])
           ELSE CoreFailure(k + 1, Tail(after))

\* C14: when a non-empty line has a failure in one of its twelve core
\* columns, PAF::from_str fails with a diagnostic whose column is the
\* offset of the first character that could not be matched (the start of
\* the innermost failing token), whose line is the line that holds it, and
\* whose details are the token's label followed by exactly one label "in
\* column: X", X being the first column in field order that failed; a
\* line without such a failure does not get such a diagnostic.
C14_InnermostFirst ==
  (pc = "PAF::from_str" /\ input # <<>>)
    => LET f == CoreFailure(1, input)
       IN  IF f # None
           THEN /\ ~out.ok
                /\ out.err = ParseLine(Lines(input)[1],
                                       Offset(input, f[1].at), f[1].details)
           ELSE out.ok \/ out.err.details = <<>>

\* PAF::from_str has failed on a missing tab after the tenth column
C14_Witness ==
  /\ pc = "PAF::from_str"
  /\ ~out.ok
  /\ out.err.kind = "ParseLine"
  /\ out.err.details = <<"expected character '\t'",
                         "in column: number matches">>
  /\ out.err.column = StrLen(input)
  /\ out.err.column > 0

---------------------------------------------------------------------------
(* C15: no panic in the localizer *)

\* C15: on a non-empty text and an offset between 0 and the length of the
\* text, find_offset returns the index of one of the lines and never
\* subtracts below zero; convert_error_str, reached from either from_str
\* or called with a line number, does not panic; and the tabs that
\* join_parse_details counts are never more than the column, for a line
\* and column given to it directly or taken from a diagnostic.
C15_NoPanic ==
  /\ (pc = "find_offset" /\ input # <<>>)
       => /\ out.result[1] < Len(out.lines)
          /\ ~find_offset_underflow(out.initial, out.lines, 1)
          /\ out.result[2] >= 0
  /\ (pc \in {"PAF::from_str", "Locus::from_str", "convert_error_str"}
        /\ ~out.ok)
       => out.err # Panic
  /\ pc = "join_parse_details"
       => TabCount(out.line, out.column) <= out.column
  /\ (pc = "Error::fmt" /\ out.err.kind \in {"ParseLine", "Parse"})
       => TabCount(out.err.line, out.err.column) <= out.err.column

\* find_offset has gone past the first line of a text of two lines, to the
\* end of the text
C15_Witness ==
  /\ pc = "find_offset"
  /\ Len(out.lines) = 2
  /\ out.initial = StrLen(input)
  /\ out.result[1] = 1
  /\ out.result[2] = StrLen(out.lines[2])

=============================================================================
